---- MODULE Spec2Model ----
(***************************************************************************)
(* PassPilot: the password generator, the k-anonymity breach check and the *)
(* background breach check of the analyzer tab (src/passpilot.py).         *)
(*                                                                         *)
(* A string is a sequence of one-character strings: "ab" is <<"a", "b">>.  *)
(***************************************************************************)
EXTENDS Integers, Sequences, FiniteSets, TLC

VARIABLES
    history,        \* AdvancedPasswordGenerator.history, newest first
    gen_op,         \* the generator method called last ("none" before any call)
    gen_args,       \* the arguments of that call
    gen_ret,        \* the value that call returned
    added,          \* how many entries add_to_history has added in this behaviour
    cip_password,   \* the argument of the last direct call of check_if_pwned
    cip_resp,       \* what requests.get did in that call (NoResponse if not called)
    cip_ret,        \* the (count, error) tuple that call returned
    hashed,         \* the inputs hashlib.sha1 was called with, so far
    net,            \* the requests sent over the network, so far
    get_calls,      \* how often requests.get was called, so far
    analyze_entry,  \* the text of the analyzer tab's entry (analyze_entry_var)
    pwned_label,    \* what pwned_label shows
    status_bar,     \* the text of the status bar
    threads,        \* the worker threads check_pwned_threaded started
    after_queue,    \* the callbacks scheduled with self.after(0, ...), oldest first
    delivered,      \* per thread, how often update_pwned_result ran with its result
    an_op,          \* the analyzer method called last ("none" before any call)
    an_arg,         \* the argument of that call
    an_ret          \* the value that call returned

gen_vars == <<history, gen_op, gen_args, gen_ret, added>>

cip_vars == <<cip_password, cip_resp, cip_ret>>

io_vars == <<hashed, net, get_calls>>

ui_vars == <<analyze_entry, pwned_label, status_bar, threads, after_queue, delivered>>

an_vars == <<an_op, an_arg, an_ret>>

vars == <<gen_vars, cip_vars, io_vars, ui_vars, an_vars>>

-----------------------------------------------------------------------------
(* Bounds of the model.                                                    *)

\* the longest password length requested of generate
MaxLength == 3
\* the largest value the random source returns in a draw of a character
MaxDraw == 1
\* the largest number of records in a response body
MaxLines == 2
\* the number of breach checks started in a behaviour
MaxChecks == 2
\* the number of calls of generate in a row
MaxCalls == 2
\* the number of entries added to a history that is full or one short of it
MaxOver == 2
\* the largest entropy given to the analyzer, in bits
MaxEntropy == 130
\* the largest number of blocks a password given to the analyzer is made of
MaxBlocks == 3

-----------------------------------------------------------------------------
(* Helpers on sequences.                                                   *)

Min(a, b) == IF a < b THEN a ELSE b

RECURSIVE Concat(_)
\* the concatenation of a sequence of sequences
Concat(ss) == IF ss = <<>> THEN <<>> ELSE Head(ss) \o Concat(Tail(ss))

Range(s) == {s[i] : i \in 1..Len(s)}

\* sub occurs in s
Occurs(sub, s) == \E i \in 0..(Len(s) - Len(sub)) : SubSeq(s, i + 1, i + Len(sub)) = sub

\* str.replace(ch, ''): every occurrence of the character removed
Replace(s, ch) == SelectSeq(s, LAMBDA c : c # ch)

\* str.join: the items with sep between them
RECURSIVE Join(_, _)
Join(ls, sep) ==
    IF ls = <<>> THEN <<>>
    ELSE IF Len(ls) = 1 THEN Head(ls)
    ELSE Head(ls) \o sep \o Join(Tail(ls), sep)

-----------------------------------------------------------------------------
(* AdvancedPasswordGenerator                                               *)

\* string.ascii_lowercase
ascii_lowercase ==
    <<"a","b","c","d","e","f","g","h","i","j","k","l","m",
      "n","o","p","q","r","s","t","u","v","w","x","y","z">>

\* string.ascii_uppercase
ascii_uppercase ==
    <<"A","B","C","D","E","F","G","H","I","J","K","L","M",
      "N","O","P","Q","R","S","T","U","V","W","X","Y","Z">>

\* string.digits
string_digits == <<"0","1","2","3","4","5","6","7","8","9">>

\* the symbols literal of generate
symbols_literal ==
    <<"!","@","#","$","%","^","&","*","(",")","-","_","=","+",
      "[","]","{","}","|",";",":",",",".","<",">","?","/">>

max_history == 50

\* the four class alphabets generate draws from, after the replace calls
lower(exclude_ambiguous) ==
    IF exclude_ambiguous
    THEN Replace(Replace(ascii_lowercase, "l"), "o")
    ELSE ascii_lowercase

upper(exclude_ambiguous) ==
    IF exclude_ambiguous
    THEN Replace(Replace(ascii_uppercase, "I"), "O")
    ELSE ascii_uppercase

\* (mutant) the digit 1 is kept
digits_keeping_one(exclude_ambiguous) ==
    IF exclude_ambiguous
    THEN Replace(string_digits, "0")
    ELSE string_digits

digits(exclude_ambiguous) ==
    IF exclude_ambiguous
    THEN Replace(Replace(string_digits, "0"), "1")
    ELSE string_digits

symbols(exclude_ambiguous) ==
    IF exclude_ambiguous
    THEN Replace(Replace(symbols_literal, "|"), "l")
    ELSE symbols_literal

\* the argument tuples of generate, its length a positive number
Args ==
    [length : 1..MaxLength, use_lower : BOOLEAN, use_upper : BOOLEAN,
     use_digits : BOOLEAN, use_symbols : BOOLEAN, exclude_ambiguous : BOOLEAN]

\* the number of classes an argument tuple selects
NumSelected(a) ==
    (IF a.use_lower THEN 1 ELSE 0) + (IF a.use_upper THEN 1 ELSE 0)
    + (IF a.use_digits THEN 1 ELSE 0) + (IF a.use_symbols THEN 1 ELSE 0)

NoArgs ==
    [length |-> 0, use_lower |-> FALSE, use_upper |-> FALSE,
     use_digits |-> FALSE, use_symbols |-> FALSE, exclude_ambiguous |-> FALSE]

\* the classes an argument tuple selects, in the order generate tests them
Selected(a) ==
    (IF a.use_lower THEN <<lower(a.exclude_ambiguous)>> ELSE <<>>)
    \o (IF a.use_upper THEN <<upper(a.exclude_ambiguous)>> ELSE <<>>)
    \o (IF a.use_digits THEN <<digits(a.exclude_ambiguous)>> ELSE <<>>)
    \o (IF a.use_symbols THEN <<symbols(a.exclude_ambiguous)>> ELSE <<>>)

\* char_pool after the four extend calls
char_pool(a) == Concat(Selected(a))

\* the values secrets.randbelow(n) returns here: 0 .. n-1, cut at MaxDraw
RandBelow(n) == 0..Min(n - 1, MaxDraw)

\* secrets.choice(seq) when the random source returned r
Choice(seq, r) == seq[r + 1]

\* the draws of the guaranteed characters: one index per selected class
ClassDraws(a) ==
    LET sel == Selected(a)
    IN  {d \in [1..Len(sel) -> 0..MaxDraw] :
            \A i \in 1..Len(sel) : d[i] \in RandBelow(Len(sel[i]))}

\* the draws of the remaining characters from char_pool
RestDraws(a) ==
    LET remaining == a.length - Len(Selected(a))
    IN  IF remaining > 0
        THEN [1..remaining -> RandBelow(Len(char_pool(a)))]
        ELSE {<<>>}

\* the draws of random.shuffle on n items: j = randbelow(i + 1) for
\* i = n-1 down to 1; sd[i] is the j drawn for that i
ShuffleDraws(n) ==
    IF n < 2 THEN {<<>>}
    ELSE {sd \in [1..(n - 1) -> 0..(n - 1)] : \A i \in 1..(n - 1) : sd[i] <= i}

Swap(x, i, j) == [x EXCEPT ![i] = x[j], ![j] = x[i]]

RECURSIVE ShuffleFrom(_, _, _)
\* random.shuffle from index i (0-based) downwards: x[i], x[j] = x[j], x[i]
ShuffleFrom(x, i, sd) ==
    IF i < 1 THEN x
    ELSE ShuffleFrom(Swap(x, i + 1, sd[i] + 1), i - 1, sd)

Shuffle(x, sd) == ShuffleFrom(x, Len(x) - 1, sd)

\* (mutant) no guaranteed characters: every character is drawn from char_pool
password_chars_from_pool(a, cd, rd) ==
    [i \in 1..Len(Selected(a)) |-> Choice(char_pool(a), cd[i])]
    \o [i \in 1..Len(rd) |-> Choice(char_pool(a), rd[i])]

\* password_chars before the shuffle: the guaranteed characters, then the
\* remaining ones
password_chars(a, cd, rd) ==
    LET sel == Selected(a)
    IN  [i \in 1..Len(sel) |-> Choice(sel[i], cd[i])]
        \o [i \in 1..Len(rd) |-> Choice(char_pool(a), rd[i])]

\* the timestamps add_to_history may read from the clock
Times == {"09:59:59", "10:00:00"}

\* (mutant) nothing is recorded
add_nothing(h, password, time) == h

\* (mutant) the entry dropped beyond max_history is the newest of the old ones
add_dropping_newest(h, password, time) ==
    LET h1 == <<[password |-> password, time |-> time]>> \o h
    IN  IF Len(h1) > max_history THEN <<Head(h1)>> \o SubSeq(h1, 3, Len(h1)) ELSE h1

\* (mutant) the entry is appended behind the older ones
add_at_end(h, password, time) ==
    LET h1 == h \o <<[password |-> password, time |-> time]>>
    IN  IF Len(h1) > max_history THEN SubSeq(h1, 1, Len(h1) - 1) ELSE h1

\* add_to_history: insert at the front, drop the last entry beyond max_history
add_to_history(h, password, time) ==
    LET h1 == <<[password |-> password, time |-> time]>> \o h
    IN  IF Len(h1) > max_history THEN SubSeq(h1, 1, Len(h1) - 1) ELSE h1

\* generate with no class selected: returns "" before anything is recorded
GenerateEmptyPool(a) ==
    /\ char_pool(a) = <<>>
    /\ gen_op' = "generate"
    /\ gen_args' = a
    /\ gen_ret' = <<>>
    /\ UNCHANGED <<history, added>>

\* generate with at least one class selected
GeneratePassword(a) ==
    /\ char_pool(a) # <<>>
    /\ \E cd \in ClassDraws(a), rd \in RestDraws(a), t \in Times :
        LET chars == password_chars(a, cd, rd)
        IN  \E sd \in ShuffleDraws(Len(chars)) :
                LET password == Shuffle(chars, sd)
                IN  /\ gen_op' = "generate"
                    /\ gen_args' = a
                    /\ gen_ret' = password
                    /\ history' = add_to_history(history, password, t)
                    /\ added' = added + 1

\* a call of generate on a generator whose history is still empty
Generate ==
    /\ history = <<>>
    /\ \E a \in Args : GenerateEmptyPool(a) \/ GeneratePassword(a)
    /\ UNCHANGED <<cip_vars, io_vars, ui_vars, an_vars>>

\* the argument tuples of the calls made in a row: one character, of one
\* class or of none
HistArgs == {a \in Args : a.length = 1 /\ NumSelected(a) <= 1}

\* a call of generate on a generator that may have generated before
GenerateHist ==
    /\ \E a \in HistArgs :
          GenerateEmptyPool(a) \/ (Len(history) < MaxCalls /\ GeneratePassword(a))
    /\ UNCHANGED <<cip_vars, io_vars, ui_vars, an_vars>>

-----------------------------------------------------------------------------
(* AdvancedPasswordGenerator.generate_passphrase                           *)

\* the built-in word list
words ==
    << <<"c","o","r","r","e","c","t">>,
       <<"h","o","r","s","e">>,
       <<"b","a","t","t","e","r","y">>,
       <<"s","t","a","p","l","e">>,
       <<"d","r","a","g","o","n">>,
       <<"m","o","u","n","t","a","i","n">>,
       <<"r","i","v","e","r">>,
       <<"f","o","r","e","s","t">>,
       <<"t","h","u","n","d","e","r">>,
       <<"c","r","y","s","t","a","l">>,
       <<"p","h","o","e","n","i","x">>,
       <<"s","h","a","d","o","w">>,
       <<"s","i","l","v","e","r">>,
       <<"g","o","l","d","e","n">>,
       <<"m","y","s","t","i","c">>,
       <<"c","o","s","m","i","c">>,
       <<"a","u","r","o","r","a">>,
       <<"n","e","b","u","l","a">>,
       <<"q","u","a","n","t","u","m">>,
       <<"s","t","e","l","l","a","r">>,
       <<"l","u","n","a","r">>,
       <<"s","o","l","a","r">>,
       <<"o","c","e","a","n">>,
       <<"s","u","m","m","i","t">>,
       <<"f","a","l","c","o","n">>,
       <<"t","i","g","e","r">>,
       <<"e","a","g","l","e">>,
       <<"w","o","l","f">>,
       <<"b","e","a","r">>,
       <<"l","i","o","n">>,
       <<"h","a","w","k">>,
       <<"c","o","b","r","a">>,
       <<"v","e","l","o","c","i","t","y">>,
       <<"i","n","f","i","n","i","t","y">>,
       <<"d","e","s","t","i","n","y">>,
       <<"l","e","g","a","c","y">>,
       <<"w","i","s","d","o","m">>,
       <<"c","o","u","r","a","g","e">>,
       <<"h","o","n","o","r">>,
       <<"j","u","s","t","i","c","e">> >>

\* the bound of the appended number: secrets.randbelow(9999)
number_bound == 9999

\* the argument tuples of generate_passphrase, its word count positive
PhraseArgs ==
    [word_count : {1}, separator : {<<"-">>}, capitalize : BOOLEAN, add_number : BOOLEAN]

\* the indexes secrets.choice(words) may draw: the first and the last word
WordDraws == {0, Len(words) - 1}

\* the values secrets.randbelow(9999) may return: the least and the greatest
NumberDraws == {0, number_bound - 1}

\* the position of a character in a sequence, 0 if it does not occur
IndexOf(c, seq) ==
    IF \E i \in 1..Len(seq) : seq[i] = c
    THEN CHOOSE i \in 1..Len(seq) : seq[i] = c
    ELSE 0

\* str.upper() and str.lower() on one character
ToUpper(c) ==
    IF IndexOf(c, ascii_lowercase) > 0 THEN ascii_uppercase[IndexOf(c, ascii_lowercase)] ELSE c

ToLower(c) ==
    IF IndexOf(c, ascii_uppercase) > 0 THEN ascii_lowercase[IndexOf(c, ascii_uppercase)] ELSE c

\* str.capitalize(): the first character upper case, the others lower case
Capitalize(word) ==
    [i \in 1..Len(word) |-> IF i = 1 THEN ToUpper(word[i]) ELSE ToLower(word[i])]

RECURSIVE Str(_)
\* str(n) of a number n >= 0
Str(n) ==
    IF n < 10 THEN <<string_digits[n + 1]>>
    ELSE Str(n \div 10) \o <<string_digits[(n % 10) + 1]>>

\* the passphrase generate_passphrase builds when the words drawn are wd
\* and the number drawn is n
passphrase_of(a, wd, n) ==
    LET drawn == [i \in 1..a.word_count |-> Choice(words, wd[i])]
        selected == IF a.capitalize
                    THEN [i \in 1..Len(drawn) |-> Capitalize(drawn[i])]
                    ELSE drawn
        joined == Join(selected, a.separator)
    IN  IF a.add_number THEN joined \o a.separator \o Str(n) ELSE joined

\* generate_passphrase: the passphrase is recorded and returned
PassphraseCall(a) ==
    \E wd \in [1..a.word_count -> WordDraws], n \in NumberDraws, t \in Times :
        LET passphrase == passphrase_of(a, wd, n)
        IN  /\ gen_op' = "generate_passphrase"
            /\ gen_args' = a
            /\ gen_ret' = passphrase
            /\ history' = add_to_history(history, passphrase, t)
            /\ added' = added + 1

\* a call of generate_passphrase on a generator that may have generated before
GeneratePassphrase ==
    /\ Len(history) < MaxCalls
    /\ \E a \in PhraseArgs : PassphraseCall(a)
    /\ UNCHANGED <<cip_vars, io_vars, ui_vars, an_vars>>

-----------------------------------------------------------------------------
(* The history at its capacity                                             *)

\* the arguments of a PIN of one digit
PinArgs ==
    [length |-> 1, use_lower |-> FALSE, use_upper |-> FALSE,
     use_digits |-> TRUE, use_symbols |-> FALSE, exclude_ambiguous |-> FALSE]

\* the history after n calls of generate(1, False, False, True, False), the
\* digits drawn in turn from the k-th on
Filled(n, k) ==
    [i \in 1..n |-> [password |-> <<string_digits[((i + k) % Len(string_digits)) + 1]>>,
                     time |-> "09:59:59"]]

FullHistories == {Filled(n, k) : n \in {max_history - 1, max_history}, k \in {0, 1}}

\* the calls made on such a history: a PIN or no class, one capitalized word,
\* a password given to add_to_history
OverArgs == {PinArgs, NoArgs}

OverPhraseArgs == {a \in PhraseArgs : a.capitalize /\ ~a.add_number}

OverPasswords == {<<"x">>}

GenerateOver ==
    /\ added < MaxOver
    /\ \E a \in OverArgs : GenerateEmptyPool(a) \/ GeneratePassword(a)
    /\ UNCHANGED <<cip_vars, io_vars, ui_vars, an_vars>>

GeneratePassphraseOver ==
    /\ added < MaxOver
    /\ \E a \in OverPhraseArgs : PassphraseCall(a)
    /\ UNCHANGED <<cip_vars, io_vars, ui_vars, an_vars>>

\* a call of add_to_history(password) itself; it returns None
AddToHistory ==
    /\ added < MaxOver
    /\ \E password \in OverPasswords, t \in Times :
        /\ gen_op' = "add_to_history"
        /\ gen_args' = password
        /\ gen_ret' = <<>>
        /\ history' = add_to_history(history, password, t)
        /\ added' = added + 1
    /\ UNCHANGED <<cip_vars, io_vars, ui_vars, an_vars>>

-----------------------------------------------------------------------------
(* AdvancedPasswordAnalyzer.check_if_pwned                                 *)

\* Python's None and a present value, for the fields of the returned tuple
None == <<>>
Some(x) == <<x>>

\* the passwords given to the breach check; "du" and "adb" have SHA-1
\* digests with the same first five hex digits
pw_empty == <<>>
pw_du == <<"d","u">>
pw_adb == <<"a","d","b">>
pw_a == <<"a">>

Passwords == {pw_empty, pw_du, pw_adb, pw_a}

\* hashlib.sha1(password.encode('utf-8')).hexdigest() on the passwords above
\* (the digests are SHA-1's own values, tabulated)
sha1_hexdigest(password) ==
    CASE password = pw_empty ->
           <<"d","a","3","9","a","3","e","e","5","e","6","b","4","b","0","d","3","2","5","5",
             "b","f","e","f","9","5","6","0","1","8","9","0","a","f","d","8","0","7","0","9">>
      [] password = pw_du ->
           <<"f","a","1","1","4","3","7","7","e","f","3","5","b","2","5","e","c","a","a","4",
             "d","5","7","e","5","0","8","4","6","4","1","5","4","3","e","0","2","5","8","8">>
      [] password = pw_adb ->
           <<"f","a","1","1","4","3","d","e","a","1","2","b","f","f","b","b","c","1","a","a",
             "9","9","d","5","d","a","2","e","c","8","1","1","d","6","3","b","5","1","2","7">>
      [] password = pw_a ->
           <<"8","6","f","7","e","4","3","7","f","a","a","5","a","7","f","c","e","1","5","d",
             "1","d","d","c","b","9","e","a","e","a","e","a","3","7","7","6","6","7","b","8">>

\* str.upper() on one character of a hex digest
UpperChar(c) ==
    CASE c = "a" -> "A" [] c = "b" -> "B" [] c = "c" -> "C"
      [] c = "d" -> "D" [] c = "e" -> "E" [] c = "f" -> "F"
      [] OTHER -> c

\* sha1 = hashlib.sha1(...).hexdigest().upper()
sha1_upper(password) ==
    LET h == sha1_hexdigest(password) IN [i \in 1..Len(h) |-> UpperChar(h[i])]

\* (mutant) the whole digest
prefix_whole(sha1) == sha1

\* sha1[:5]
prefix_of(sha1) == SubSeq(sha1, 1, Min(5, Len(sha1)))

\* sha1[5:]
suffix_of(sha1) == SubSeq(sha1, 6, Len(sha1))

range_url ==
    <<"h","t","t","p","s",":","/","/","a","p","i",".","p","w","n","e","d","p","a","s",
      "s","w","o","r","d","s",".","c","o","m","/","r","a","n","g","e","/">>

request_timeout == 5

\* requests.get(url, timeout=5) with url = f".../range/{prefix}"
RangeRequest(sha1) ==
    [method |-> "GET", url |-> range_url \o prefix_of(sha1), timeout |-> request_timeout]

\* what requests.get does: it raises (exc), or returns a response
NoResponse == [exc |-> "none", status |-> 0, text |-> <<>>]

\* the exceptions of a failed transport: connection refused or DNS failure
\* (ConnectionError), timeout expiry (Timeout); both are RequestExceptions
TransportExceptions == {"ConnectionError", "Timeout"}

\* the status codes of the responses requests.get returns
Statuses == {200, 304, 404, 503}

\* the counts and the records a response body is made of; a count may be
\* signed, and a server may put each digest it lists in the count field
Digits == {"0","1","2","3","4","5","6","7","8","9"}

Record(password, count) == suffix_of(sha1_upper(password)) \o <<":">> \o count

ResponseLines ==
    { Record(pw_du, <<"3","3","0","3","0","0","3">>),
      Record(pw_adb, <<"7">>),
      Record(pw_du, <<"0">>),
      Record(pw_du, <<"x">>),
      Record(pw_adb, <<"x">>),
      Record(pw_du, <<"1",":","2">>),
      Record(pw_du, <<"-","5">>),
      Record(pw_du, sha1_upper(pw_du)),
      <<"g","a","r","b","a","g","e">>,
      <<>> }

\* the line separators of a body: the API's "\r\n", and "\n"
LineEnds == { <<"\n">>, <<"\r","\n">> }

RECURSIVE SeqsUpTo(_, _)
\* the sequences over S of length at most n
SeqsUpTo(S, n) ==
    IF n = 0 THEN {<<>>}
    ELSE LET shorter == SeqsUpTo(S, n - 1)
         IN  shorter \cup {Append(s, x) : s \in {t \in shorter : Len(t) = n - 1}, x \in S}

\* the bodies of at most n records
Bodies(n) == {Join(ls, sep) : ls \in SeqsUpTo(ResponseLines, n), sep \in LineEnds}

ResponsesOf(n) ==
    [exc : TransportExceptions, status : {0}, text : {<<>>}]
    \cup [exc : {"none"}, status : Statuses, text : Bodies(n)]

\* what requests.get may do in a direct call of check_if_pwned
Responses == ResponsesOf(MaxLines)

\* what requests.get may do in a worker thread: a timeout, or a page of one
\* line; with the entries below they give a positive count, a count of 0,
\* an "API error" and an "Error"
WorkerResponses ==
    [exc : {"Timeout"}, status : {0}, text : {<<>>}]
    \cup [exc : {"none"}, status : {200},
          text : { Record(pw_du, <<"3","3","0","3","0","0","3">>),
                   Record(pw_adb, <<"7">>),
                   <<"g","a","r","b","a","g","e">> }]

\* the k-th smallest element of a set of numbers
Nth(P, k) == CHOOSE i \in P : Cardinality({j \in P : j < i}) = k - 1

\* line.split(sep): the pieces between the occurrences of sep, at least one
Split(line, sep) ==
    LET P == {i \in 1..Len(line) : line[i] = sep}
        n == Cardinality(P)
        from(k) == IF k = 1 THEN 1 ELSE Nth(P, k - 1) + 1
        to(k) == IF k = n + 1 THEN Len(line) ELSE Nth(P, k) - 1
    IN  [k \in 1..(n + 1) |-> SubSeq(line, from(k), to(k))]

\* str.splitlines(): "\r\n", "\n" and "\r" end a line; what follows the last
\* line end is a line only if it is not empty
splitlines(text) ==
    LET E == {i \in 1..Len(text) :
                 \/ text[i] = "\n"
                 \/ text[i] = "\r" /\ ~(i < Len(text) /\ text[i + 1] = "\n")}
        n == Cardinality(E)
        from(k) == IF k = 1 THEN 1 ELSE Nth(E, k - 1) + 1
        to(k) ==
            LET e == Nth(E, k)
            IN  IF text[e] = "\n" /\ e > 1 /\ text[e - 1] = "\r" THEN e - 2 ELSE e - 1
        last == IF n = 0 THEN 1 ELSE Nth(E, n) + 1
    IN  [k \in 1..n |-> SubSeq(text, from(k), to(k))]
        \o (IF last <= Len(text) THEN <<SubSeq(text, last, Len(text))>> ELSE <<>>)

Whitespace == {" ", "\t", "\n", "\r", "\f"}

RECURSIVE LStrip(_)
LStrip(s) == IF s # <<>> /\ Head(s) \in Whitespace THEN LStrip(Tail(s)) ELSE s

RECURSIVE RStrip(_)
RStrip(s) ==
    IF s # <<>> /\ s[Len(s)] \in Whitespace THEN RStrip(SubSeq(s, 1, Len(s) - 1)) ELSE s

\* the digits of an int() literal, its sign and the blanks around it removed
Unsigned(s) ==
    LET t == RStrip(LStrip(s))
    IN  IF t # <<>> /\ Head(t) \in {"+", "-"} THEN Tail(t) ELSE t

\* int(s) does not raise ValueError: digits, single underscores between them
IsInt(s) ==
    LET u == Unsigned(s)
    IN  /\ u # <<>>
        /\ \A i \in 1..Len(u) : u[i] \in Digits \cup {"_"}
        /\ u[1] # "_" /\ u[Len(u)] # "_"
        /\ \A i \in 1..(Len(u) - 1) : ~(u[i] = "_" /\ u[i + 1] = "_")

DigitValue(c) ==
    CASE c = "0" -> 0 [] c = "1" -> 1 [] c = "2" -> 2 [] c = "3" -> 3 [] c = "4" -> 4
      [] c = "5" -> 5 [] c = "6" -> 6 [] c = "7" -> 7 [] c = "8" -> 8 [] c = "9" -> 9

RECURSIVE Magnitude(_, _)
Magnitude(u, acc) ==
    IF u = <<>> THEN acc
    ELSE IF Head(u) = "_" THEN Magnitude(Tail(u), acc)
    ELSE Magnitude(Tail(u), 10 * acc + DigitValue(Head(u)))

\* int(s), for an s with IsInt(s)
IntValue(s) ==
    LET t == RStrip(LStrip(s))
    IN  IF Head(t) = "-" THEN 0 - Magnitude(Unsigned(s), 0) ELSE Magnitude(Unsigned(s), 0)

\* the tuples check_if_pwned returns; an error is its tag (the text before
\* ": {e}", or the whole text), the class of the exception e and the data
\* the text of e carries
Counted(n) == [count |-> Some(n), error |-> None]

FailedWith(tag, exc, text) ==
    [count |-> None, error |-> Some([tag |-> tag, exc |-> exc, text |-> text])]

Failed(tag, exc) == FailedWith(tag, exc, <<>>)

\* repr(s) of a string of letters, digits and signs, as the message of
\* int()'s ValueError shows it: "invalid literal for int() with base 10: 's'"
Repr(s) == <<"'">> \o s \o <<"'">>

NoResult == [count |-> None, error |-> None]

\* (mutant) the empty password is not told apart
never_empty(password) == FALSE

\* "if not password"
not_password(password) == password = <<>>

RECURSIVE ScanRecordsLast(_, _)
\* (mutant) no return at the first record with the suffix: the last one decides
ScanRecordsLast(lines, suffix) ==
    IF lines = <<>> THEN Counted(0)
    ELSE LET fields == Split(Head(lines), ":")
             rest == ScanRecordsLast(Tail(lines), suffix)
             later == \E i \in 2..Len(lines) : Split(lines[i], ":")[1] = suffix
         IN  IF Len(fields) # 2 THEN Failed("Error", "ValueError")
             ELSE IF fields[1] = suffix /\ ~later
                  THEN IF IsInt(fields[2])
                       THEN Counted(IntValue(fields[2]))
                       ELSE FailedWith("Error", "ValueError", Repr(fields[2]))
             ELSE rest

RECURSIVE ScanRecords(_, _)
\* for h, count in hashes: the unpacking raises ValueError unless the line
\* has exactly one colon; the first record with the suffix decides
ScanRecords(lines, suffix) ==
    IF lines = <<>> THEN Counted(0)
    ELSE LET fields == Split(Head(lines), ":")
         IN  IF Len(fields) # 2 THEN Failed("Error", "ValueError")
             ELSE IF fields[1] = suffix
                  THEN IF IsInt(fields[2])
                       THEN Counted(IntValue(fields[2]))
                       ELSE FailedWith("Error", "ValueError", Repr(fields[2]))
             ELSE ScanRecords(Tail(lines), suffix)

\* response.raise_for_status() raises HTTPError for 4xx and 5xx
raises_for_status(status) == 400 <= status /\ status < 600

\* the try block of check_if_pwned once requests.get has returned or raised;
\* the text of a requests exception can name the url of the request, and of
\* the url only the prefix comes from the call
HandleResponse(sha1, resp) ==
    IF resp.exc # "none"
    THEN FailedWith("API error", resp.exc, prefix_of(sha1))
    ELSE IF raises_for_status(resp.status)
    THEN FailedWith("API error", "HTTPError", prefix_of(sha1))
    ELSE ScanRecords(splitlines(resp.text), suffix_of(sha1))

\* the inputs check_if_pwned(password) hashes
Sha1Inputs(password) == IF not_password(password) THEN {} ELSE {password}

\* the requests check_if_pwned(password) sends
RequestsOf(password) ==
    IF not_password(password) THEN {} ELSE {RangeRequest(sha1_upper(password))}

\* the tuple check_if_pwned(password) returns when requests.get does resp
check_if_pwned(password, resp) ==
    IF not_password(password) THEN Failed("Password is empty.", "none")
    ELSE HandleResponse(sha1_upper(password), resp)

\* (mutant) a failed request is sent once more
requests_get_retried(password, resp) ==
    IF not_password(password) THEN 0
    ELSE IF resp.exc # "none" \/ raises_for_status(resp.status) THEN 2 ELSE 1

\* how often check_if_pwned(password) calls requests.get when that does
\* resp: once in the try block, outside any loop, and the except clauses
\* return
requests_get(password, resp) == IF not_password(password) THEN 0 ELSE 1

\* a direct call of check_if_pwned, the first one after construction
CheckIfPwned ==
    /\ cip_ret = NoResult
    /\ \E password \in Passwords, resp \in Responses :
        /\ cip_password' = password
        /\ cip_resp' = IF RequestsOf(password) = {} THEN NoResponse ELSE resp
        /\ cip_ret' = check_if_pwned(password, resp)
        /\ hashed' = hashed \cup Sha1Inputs(password)
        /\ net' = net \cup RequestsOf(password)
        /\ get_calls' = get_calls + requests_get(password, resp)
    /\ UNCHANGED <<gen_vars, ui_vars, an_vars>>

-----------------------------------------------------------------------------
(* PassPilotSupreme: the breach check of the analyzer tab                  *)

Checks == 1..MaxChecks

\* a thread check_pwned_threaded has not created yet
NoThread == [pc |-> "unstarted", password |-> <<>>, outcome |-> ""]

\* how a worker's call of check_if_pwned ended: with a count or with an error
Outcome(result) == IF result.error = None THEN "count" ELSE "error"

\* what pwned_label shows: nothing, "Checking...", or a result; of is the
\* thread whose result it is (0 for none), which the label itself does not tell
Blank == [kind |-> "", count |-> 0, error |-> None, of |-> 0]

CheckingLabel == [kind |-> "Checking...", count |-> 0, error |-> None, of |-> 0]

\* the label and the status bar update_pwned_result(count, error) sets
ResultLabel(count, error, id) ==
    IF error # None
    THEN [kind |-> "Failed", count |-> 0, error |-> error, of |-> id]
    ELSE IF count[1] > 0
         THEN [kind |-> "EXPOSED!", count |-> count[1], error |-> None, of |-> id]
         ELSE [kind |-> "Safe!", count |-> 0, error |-> None, of |-> id]

ResultStatus(count, error) ==
    IF error # None THEN "Breach check failed"
    ELSE IF count[1] > 0 THEN "Password is compromised!"
    ELSE "Password passed breach check"

\* analyze_password, the write trace of analyze_entry_var: the entry now
\* holds password; both of its branches blank pwned_label
AnalyzePassword(password) ==
    /\ analyze_entry' = password
    /\ pwned_label' = Blank
    /\ UNCHANGED <<status_bar, threads, after_queue, delivered>>
    /\ UNCHANGED <<gen_vars, cip_vars, io_vars, an_vars>>

\* check_pwned_threaded with an empty entry: an info box, nothing else
CheckPwnedEmpty ==
    /\ analyze_entry = <<>>
    /\ UNCHANGED vars

\* check_pwned_threaded with a password in the entry: a worker thread is
\* started with that password
CheckPwnedThreaded(id) ==
    /\ analyze_entry # <<>>
    /\ threads[id].pc = "unstarted"
    /\ \A j \in Checks : j < id => threads[j].pc # "unstarted"
    /\ pwned_label' = CheckingLabel
    /\ status_bar' = "Checking breach database..."
    /\ threads' = [threads EXCEPT ![id] = [pc |-> "started", password |-> analyze_entry,
                                           outcome |-> ""]]
    /\ UNCHANGED <<analyze_entry, after_queue, delivered>>
    /\ UNCHANGED <<gen_vars, cip_vars, io_vars, an_vars>>

\* (mutant) the callback is scheduled twice
ScheduledTwice(queue, result, id) ==
    queue \o << [count |-> result.count, error |-> result.error, of |-> id],
                [count |-> result.count, error |-> result.error, of |-> id] >>

\* self.after(0, self.update_pwned_result, count, error)
Scheduled(queue, result, id) ==
    Append(queue, [count |-> result.count, error |-> result.error, of |-> id])

\* check_pwned_worker up to requests.get: check_if_pwned hashes the password
\* and sends the request (an empty password returns at once)
WorkerCall(id) ==
    /\ threads[id].pc = "started"
    /\ LET password == threads[id].password
           result == check_if_pwned(password, NoResponse)
       IN  /\ hashed' = hashed \cup Sha1Inputs(password)
           /\ net' = net \cup RequestsOf(password)
           /\ get_calls' = get_calls + requests_get(password, NoResponse)
           /\ IF RequestsOf(password) = {}
              THEN /\ threads' = [threads EXCEPT ![id].pc = "finished",
                                                 ![id].outcome = Outcome(result)]
                   /\ after_queue' = Scheduled(after_queue, result, id)
              ELSE /\ threads' = [threads EXCEPT ![id].pc = "waiting"]
                   /\ UNCHANGED after_queue
    /\ UNCHANGED <<analyze_entry, pwned_label, status_bar, delivered>>
    /\ UNCHANGED <<gen_vars, cip_vars, an_vars>>

\* check_pwned_worker from the moment requests.get returns or raises (the
\* timeout of 5 seconds bounds the wait): check_if_pwned returns its tuple and
\* the worker schedules update_pwned_result with it
WorkerFinish(id, resp) ==
    /\ threads[id].pc = "waiting"
    /\ LET result == check_if_pwned(threads[id].password, resp)
       IN  /\ threads' = [threads EXCEPT ![id].pc = "finished", ![id].outcome = Outcome(result)]
           /\ after_queue' = Scheduled(after_queue, result, id)
    /\ UNCHANGED <<analyze_entry, pwned_label, status_bar, delivered>>
    /\ UNCHANGED <<gen_vars, cip_vars, io_vars, an_vars>>

\* update_pwned_result, run by the main loop for the oldest scheduled callback
UpdatePwnedResult ==
    /\ after_queue # <<>>
    /\ LET cb == Head(after_queue)
       IN  /\ pwned_label' = ResultLabel(cb.count, cb.error, cb.of)
           /\ status_bar' = ResultStatus(cb.count, cb.error)
           /\ delivered' = [delivered EXCEPT ![cb.of] = @ + 1]
    /\ after_queue' = Tail(after_queue)
    /\ UNCHANGED <<analyze_entry, threads>>
    /\ UNCHANGED <<gen_vars, cip_vars, io_vars, an_vars>>

-----------------------------------------------------------------------------
(* AdvancedPasswordAnalyzer: strength, entropy, crack time, suggestions    *)
(*                                                                         *)
(* An entropy is a number of hundredths of a bit: calculate_entropy rounds  *)
(* its result to two decimals, and 27.99 bits is 2799.                     *)

\* one bit, in hundredths
Bit == 100

\* (mutant) an entropy equal to the first threshold stays in the lower band
get_strength_feedback_le(entropy) ==
    IF entropy <= 28 * Bit THEN [label |-> "Critical", color |-> "#c0392b", level |-> 0]
    ELSE IF entropy < 36 * Bit THEN [label |-> "Very Weak", color |-> "#e74c3c", level |-> 1]
    ELSE IF entropy < 50 * Bit THEN [label |-> "Weak", color |-> "#e67e22", level |-> 2]
    ELSE IF entropy < 65 * Bit THEN [label |-> "Fair", color |-> "#f39c12", level |-> 3]
    ELSE IF entropy < 80 * Bit THEN [label |-> "Good", color |-> "#f1c40f", level |-> 4]
    ELSE IF entropy < 100 * Bit THEN [label |-> "Strong", color |-> "#2ecc71", level |-> 5]
    ELSE IF entropy < 120 * Bit THEN [label |-> "Very Strong", color |-> "#27ae60", level |-> 6]
    ELSE [label |-> "Exceptional", color |-> "#16a085", level |-> 7]

\* get_strength_feedback: the chain of comparisons
get_strength_feedback(entropy) ==
    IF entropy < 28 * Bit THEN [label |-> "Critical", color |-> "#c0392b", level |-> 0]
    ELSE IF entropy < 36 * Bit THEN [label |-> "Very Weak", color |-> "#e74c3c", level |-> 1]
    ELSE IF entropy < 50 * Bit THEN [label |-> "Weak", color |-> "#e67e22", level |-> 2]
    ELSE IF entropy < 65 * Bit THEN [label |-> "Fair", color |-> "#f39c12", level |-> 3]
    ELSE IF entropy < 80 * Bit THEN [label |-> "Good", color |-> "#f1c40f", level |-> 4]
    ELSE IF entropy < 100 * Bit THEN [label |-> "Strong", color |-> "#2ecc71", level |-> 5]
    ELSE IF entropy < 120 * Bit THEN [label |-> "Very Strong", color |-> "#27ae60", level |-> 6]
    ELSE [label |-> "Exceptional", color |-> "#16a085", level |-> 7]

\* the entropies given to the analyzer: every quarter of a bit up to
\* MaxEntropy, and the hundredths next to the whole bits
Entropies ==
    {k * (Bit \div 4) : k \in 0..(4 * MaxEntropy)}
    \cup {b * Bit + d : b \in 1..MaxEntropy, d \in {-1, 1}}

\* a call of get_strength_feedback, the first call of the analyzer
StrengthFeedback ==
    /\ an_op = "none"
    /\ \E entropy \in Entropies :
        /\ an_op' = "get_strength_feedback"
        /\ an_arg' = entropy
        /\ an_ret' = get_strength_feedback(entropy)
    /\ UNCHANGED <<gen_vars, cip_vars, io_vars, ui_vars>>

\* the passwords given to the analyzer: "Passw0rd!", and the passwords made
\* of at most MaxBlocks of the blocks below
Passw0rd == <<"P","a","s","s","w","0","r","d","!">>

Blocks ==
    { <<"a","B","3","!">>, <<"c","D","4","@">>, <<"e","F","5","#">>,
      <<"a","b","c","d","e">>, <<"1","2","3","4">>, <<"Z","Z","Z">>, <<"_","-">> }

AnalyzerPasswords == {Passw0rd} \cup {Concat(bs) : bs \in SeqsUpTo(Blocks, MaxBlocks)}

\* re.search(r'[a-z]', password), r'[A-Z]', r'\d' and r'[^a-zA-Z\d]' on a
\* password of ASCII characters
has_lower(password) == \E i \in 1..Len(password) : password[i] \in Range(ascii_lowercase)

has_upper(password) == \E i \in 1..Len(password) : password[i] \in Range(ascii_uppercase)

has_digit(password) == \E i \in 1..Len(password) : password[i] \in Range(string_digits)

has_other(password) ==
    \E i \in 1..Len(password) :
        password[i] \notin Range(ascii_lowercase) \cup Range(ascii_uppercase)
                           \cup Range(string_digits)

\* (mutant) the symbols are not counted
pool_size_no_symbols(password) ==
    (IF has_lower(password) THEN 26 ELSE 0) + (IF has_upper(password) THEN 26 ELSE 0)
    + (IF has_digit(password) THEN 10 ELSE 0)

\* pool_size after the four tests of calculate_entropy
pool_size(password) ==
    (IF has_lower(password) THEN 26 ELSE 0) + (IF has_upper(password) THEN 26 ELSE 0)
    + (IF has_digit(password) THEN 10 ELSE 0) + (IF has_other(password) THEN 32 ELSE 0)

\* math.log2(n) in millionths of a bit, for the pool sizes there are
log2_millionths(n) ==
    CASE n = 10 -> 3321928 [] n = 26 -> 4700440 [] n = 32 -> 5000000
      [] n = 36 -> 5169925 [] n = 42 -> 5392317 [] n = 52 -> 5700440
      [] n = 58 -> 5857981 [] n = 62 -> 5954196 [] n = 68 -> 6087463
      [] n = 84 -> 6392317 [] n = 94 -> 6554589

\* round(x, 2) of an x >= 0 given in millionths, in hundredths; the result
\* is that of the source for the passwords of up to 40 characters
round2(x) == (x + 5000) \div 10000

\* calculate_entropy
calculate_entropy(password) ==
    IF password = <<>> THEN 0
    ELSE IF pool_size(password) = 0 THEN 0
    ELSE round2(Len(password) * log2_millionths(pool_size(password)))

\* a call of calculate_entropy, the first call of the analyzer
CalculateEntropy ==
    /\ an_op = "none"
    /\ \E password \in AnalyzerPasswords :
        /\ an_op' = "calculate_entropy"
        /\ an_arg' = password
        /\ an_ret' = calculate_entropy(password)
    /\ UNCHANGED <<gen_vars, cip_vars, io_vars, ui_vars>>

\* the least entropy, in hundredths of a bit, at which
\* seconds = 2 ** entropy / 100_000_000_000 is at least the duration d: the
\* durations get_crack_time compares with and divides by, in seconds 1, 60,
\* 3600, 86400, 31536000, 31536000 * 100, 31536000 * 1000, 31536000 * 1000000
ReachedAt(d) ==
    CASE d = "second" -> 3655
      [] d = "minute" -> 4245
      [] d = "hour" -> 4836
      [] d = "day" -> 5294
      [] d = "year" -> 6146
      [] d = "100 years" -> 6810
      [] d = "thousand years" -> 7142
      [] d = "million years" -> 8139

\* seconds < d, for the seconds of an entropy
seconds_lt(entropy, d) == entropy < ReachedAt(d)

\* the text get_crack_time returns: its unit, and of the number in front of
\* the unit (seconds divided by the duration per) whether it is at least 1
Shown(entropy, unit, per) ==
    [unit |-> unit, at_least_one |-> ~seconds_lt(entropy, per)]

\* get_crack_time: the chain of comparisons
get_crack_time(entropy) ==
    IF seconds_lt(entropy, "minute") THEN Shown(entropy, "seconds", "second")
    ELSE IF seconds_lt(entropy, "hour") THEN Shown(entropy, "minutes", "minute")
    ELSE IF seconds_lt(entropy, "day") THEN Shown(entropy, "hours", "hour")
    ELSE IF seconds_lt(entropy, "year") THEN Shown(entropy, "days", "day")
    ELSE IF seconds_lt(entropy, "100 years") THEN Shown(entropy, "years", "year")
    ELSE IF seconds_lt(entropy, "million years")
         THEN Shown(entropy, "thousand years", "thousand years")
    ELSE [unit |-> "millions of years+", at_least_one |-> TRUE]

\* a call of get_crack_time, the first call of the analyzer
CrackTime ==
    /\ an_op = "none"
    /\ \E entropy \in Entropies :
        /\ an_op' = "get_crack_time"
        /\ an_arg' = entropy
        /\ an_ret' = get_crack_time(entropy)
    /\ UNCHANGED <<gen_vars, cip_vars, io_vars, ui_vars>>

\* the password with str.lower() applied, as re.IGNORECASE compares it
Fold(password) == [i \in 1..Len(password) |-> ToLower(password[i])]

\* the characters of the classes \w, \d and [a-z] under re.IGNORECASE, of
\* a password of ASCII characters
IsWord(c) ==
    c \in Range(ascii_lowercase) \cup Range(ascii_uppercase) \cup Range(string_digits) \cup {"_"}

IsDigit(c) == c \in Range(string_digits)

IsLetter(c) == c \in Range(ascii_lowercase) \cup Range(ascii_uppercase)

\* n characters in a row, from position i on, all of the class
Run(password, i, n, class) ==
    i + n - 1 <= Len(password) /\ \A j \in i..(i + n - 1) : password[j] \in class

\* re.search(pattern, password, re.IGNORECASE) for the patterns of
\* common_patterns; a '+' after a literal asks for nothing more than the
\* literal
Search(pattern, password) ==
    LET f == Fold(password)
        positions == 1..Len(password)
    IN  CASE pattern = "123+" -> Occurs(<<"1","2","3">>, f)
          [] pattern = "abc+" -> Occurs(<<"a","b","c">>, f)
          [] pattern = "qwert+" -> Occurs(<<"q","w","e","r","t">>, f)
          [] pattern = "password" -> Occurs(<<"p","a","s","s","w","o","r","d">>, f)
          [] pattern = "admin" -> Occurs(<<"a","d","m","i","n">>, f)
          [] pattern = "(\\w)\\1{2,}" ->
                \E i \in positions :
                    /\ i + 2 <= Len(f)
                    /\ IsWord(f[i])
                    /\ f[i + 1] = f[i] /\ f[i + 2] = f[i]
          [] pattern = "\\d{4,}" -> \E i \in positions : Run(f, i, 4, Range(string_digits))
          [] pattern = "[a-z]{5,}" -> \E i \in positions : Run(f, i, 5, Range(ascii_lowercase))
          [] pattern = "[A-Z]{5,}" -> \E i \in positions : Run(f, i, 5, Range(ascii_lowercase))

common_patterns ==
    << "123+", "abc+", "qwert+", "password", "admin",
       "(\\w)\\1{2,}", "\\d{4,}", "[a-z]{5,}", "[A-Z]{5,}" >>

\* detect_patterns: the patterns found, in the order of common_patterns
detect_patterns(password) ==
    SelectSeq(common_patterns, LAMBDA pattern : Search(pattern, password))

\* the suggestions, each after the prefix of a bullet and a blank
IncreaseLength == "Increase length to at least 12 characters"
AddLowercase == "Add lowercase letters"
AddUppercase == "Add uppercase letters"
AddNumbers == "Add numbers"
AddSpecial == "Add special characters"
AvoidPatterns == "Avoid common patterns and sequences"
MoreUnique == "Use more unique characters"
Excellent == "Your password is excellent!"

\* len(set(password)) < len(password) * 0.6
few_unique(password) == 10 * Cardinality(Range(password)) < 6 * Len(password)

\* the suggestion appended when the test holds
When(test, suggestion) == IF test THEN <<suggestion>> ELSE <<>>

\* (mutant) the pattern rule is evaluated after the rule of unique characters
get_suggestions_swapped(password) ==
    LET suggestions ==
            When(Len(password) < 12, IncreaseLength)
            \o When(~has_lower(password), AddLowercase)
            \o When(~has_upper(password), AddUppercase)
            \o When(~has_digit(password), AddNumbers)
            \o When(~has_other(password), AddSpecial)
            \o When(few_unique(password), MoreUnique)
            \o When(detect_patterns(password) # <<>>, AvoidPatterns)
    IN  IF suggestions # <<>> THEN suggestions ELSE <<Excellent>>

\* get_suggestions
get_suggestions(password) ==
    LET suggestions ==
            When(Len(password) < 12, IncreaseLength)
            \o When(~has_lower(password), AddLowercase)
            \o When(~has_upper(password), AddUppercase)
            \o When(~has_digit(password), AddNumbers)
            \o When(~has_other(password), AddSpecial)
            \o When(detect_patterns(password) # <<>>, AvoidPatterns)
            \o When(few_unique(password), MoreUnique)
    IN  IF suggestions # <<>> THEN suggestions ELSE <<Excellent>>

\* a call of get_suggestions, the first call of the analyzer
Suggestions ==
    /\ an_op = "none"
    /\ \E password \in AnalyzerPasswords :
        /\ an_op' = "get_suggestions"
        /\ an_arg' = password
        /\ an_ret' = get_suggestions(password)
    /\ UNCHANGED <<gen_vars, cip_vars, io_vars, ui_vars>>

-----------------------------------------------------------------------------

Init ==
    /\ history = <<>>
    /\ gen_op = "none"
    /\ gen_args = NoArgs
    /\ gen_ret = <<>>
    /\ added = 0
    /\ cip_password = <<>>
    /\ cip_resp = NoResponse
    /\ cip_ret = NoResult
    /\ hashed = {}
    /\ net = {}
    /\ get_calls = 0
    /\ analyze_entry = <<>>
    /\ pwned_label = Blank
    /\ status_bar = "Ready"
    /\ threads = [id \in Checks |-> NoThread]
    /\ after_queue = <<>>
    /\ delivered = [id \in Checks |-> 0]
    /\ an_op = "none"
    /\ an_arg = <<>>
    /\ an_ret = <<>>

\* calls of AdvancedPasswordGenerator.generate
NextGen == Generate

SpecGen == Init /\ [][NextGen]_vars

\* calls of generate one after the other
NextHist == GenerateHist \/ GeneratePassphrase

SpecHist == Init /\ [][NextHist]_vars

\* a generator whose history is full, or one entry short of it, after calls
\* of generate(1, False, False, True, False)
InitOver ==
    /\ history \in FullHistories
    /\ gen_op = "generate"
    /\ gen_args = PinArgs
    /\ gen_ret = history[1].password
    /\ added = 0
    /\ cip_password = <<>>
    /\ cip_resp = NoResponse
    /\ cip_ret = NoResult
    /\ hashed = {}
    /\ net = {}
    /\ get_calls = 0
    /\ analyze_entry = <<>>
    /\ pwned_label = Blank
    /\ status_bar = "Ready"
    /\ threads = [id \in Checks |-> NoThread]
    /\ after_queue = <<>>
    /\ delivered = [id \in Checks |-> 0]
    /\ an_op = "none"
    /\ an_arg = <<>>
    /\ an_ret = <<>>

NextOver == GenerateOver \/ GeneratePassphraseOver \/ AddToHistory

SpecOver == InitOver /\ [][NextOver]_vars

\* calls of the analyzer's functions
NextAnalyzer == StrengthFeedback \/ CalculateEntropy \/ CrackTime \/ Suggestions

SpecAnalyzer == Init /\ [][NextAnalyzer]_vars

\* direct calls of AdvancedPasswordAnalyzer.check_if_pwned
NextPwned == CheckIfPwned

SpecPwned == Init /\ [][NextPwned]_vars

\* the analyzer tab: the user edits the entry and presses the check button,
\* the worker threads and the main loop run
NextUI ==
    \/ \E password \in Passwords : AnalyzePassword(password)
    \/ CheckPwnedEmpty
    \/ \E id \in Checks : CheckPwnedThreaded(id)
    \/ \E id \in Checks : WorkerCall(id)
    \/ \E id \in Checks, resp \in WorkerResponses : WorkerFinish(id, resp)
    \/ UpdatePwnedResult

\* a started thread runs on, requests.get ends within its timeout, and the
\* main loop runs the callbacks scheduled with after
FairUI ==
    /\ \A id \in Checks : WF_vars(WorkerCall(id))
    /\ \A id \in Checks : WF_vars(\E resp \in WorkerResponses : WorkerFinish(id, resp))
    /\ WF_vars(UpdatePwnedResult)

SpecUI == Init /\ [][NextUI]_vars /\ FairUI

\* the analyzer tab with one password and the responses that give it a
\* positive count, a count of 0 and an error
LifePasswords == {pw_empty, pw_du}

LifeResponses ==
    [exc : {"Timeout"}, status : {0}, text : {<<>>}]
    \cup [exc : {"none"}, status : {200},
          text : {Record(pw_du, <<"3","3","0","3","0","0","3">>), Record(pw_adb, <<"7">>)}]

NextLife ==
    \/ \E password \in LifePasswords : AnalyzePassword(password)
    \/ CheckPwnedEmpty
    \/ \E id \in Checks : CheckPwnedThreaded(id)
    \/ \E id \in Checks : WorkerCall(id)
    \/ \E id \in Checks, resp \in LifeResponses : WorkerFinish(id, resp)
    \/ UpdatePwnedResult

FairLife ==
    /\ \A id \in Checks : WF_vars(WorkerCall(id))
    /\ \A id \in Checks : WF_vars(\E resp \in LifeResponses : WorkerFinish(id, resp))
    /\ WF_vars(UpdatePwnedResult)

SpecLife == Init /\ [][NextLife]_vars /\ FairLife

Spec == SpecUI

-----------------------------------------------------------------------------
(* The breach check of the analyzer tab: supersede semantics, life cycle   *)

\* the state of the breach check of thread id
CheckState(id) ==
    CASE threads[id].pc = "unstarted" -> "Idle"
      [] threads[id].pc \in {"started", "waiting"} -> "Checking"
      [] OTHER -> IF threads[id].outcome = "count" THEN "Completed" ELSE "Failed"

\* C1: supersede semantics. A result shown in pwned_label is the result of a
\* check of the password the entry holds now: once the entry has changed, the
\* result computed for the earlier password is not shown for it.
C1_Supersede ==
    pwned_label.of # 0 => threads[pwned_label.of].password = analyze_entry

\* C2: every breach check goes Idle -> Checking -> {Completed | Failed}. A
\* check that is started ends in exactly one terminal state and its result
\* is delivered to update_pwned_result exactly once; a terminal state is
\* never left and no second result is delivered.
C2_Lifecycle ==
    /\ [](\A id \in Checks :
            /\ delivered[id] <= 1
            /\ delivered[id] = 1 => CheckState(id) \in {"Completed", "Failed"})
    /\ [][\A id \in Checks :
            /\ CheckState(id) = "Idle" => CheckState(id)' \in {"Idle", "Checking"}
            /\ CheckState(id) = "Checking"
                 => CheckState(id)' \in {"Checking", "Completed", "Failed"}
            /\ CheckState(id) \in {"Completed", "Failed"}
                 => threads'[id] = threads[id]]_vars
    /\ \A id \in Checks :
            (CheckState(id) = "Checking")
                ~> (CheckState(id) \in {"Completed", "Failed"} /\ delivered[id] = 1)

\* a check has completed with a count and its result has been delivered
C2_Witness ==
    \E id \in Checks :
        /\ CheckState(id) = "Completed"
        /\ delivered[id] = 1
        /\ pwned_label.of = id
        /\ pwned_label.kind \in {"EXPOSED!", "Safe!"}

\* the part of a request's url after the endpoint
UrlData(r) == SubSeq(r.url, Len(range_url) + 1, Len(r.url))

\* C3: k-anonymity. Every request sent is the GET of the range endpoint with
\* the first 5 characters of the upper-case hex SHA-1 digest of a checked
\* password and nothing else: the 35 other characters of the digest occur in
\* no request, the password does not occur in the data of a request, and
\* passwords whose digests share their first 5 characters give one request.
C3_KAnonymity ==
    /\ \A r \in net :
        /\ r.method = "GET"
        /\ SubSeq(r.url, 1, Len(range_url)) = range_url
        /\ Len(UrlData(r)) = 5
        /\ \E p \in hashed : UrlData(r) = SubSeq(sha1_upper(p), 1, 5)
        /\ \A p \in hashed :
            /\ ~Occurs(SubSeq(sha1_upper(p), 6, 40), r.url)
            /\ ~Occurs(sha1_upper(p), r.url)
            /\ ~Occurs(p, UrlData(r))
    /\ Cardinality(net) = Cardinality({SubSeq(sha1_upper(p), 1, 5) : p \in hashed})

\* two passwords with the same digest prefix have been checked
C3_Witness ==
    /\ {pw_du, pw_adb} \subseteq hashed
    /\ Cardinality(net) = 1

-----------------------------------------------------------------------------
(* generate                                                                *)

\* C4: for at least one selected class and length >= the number of selected
\* classes, generate returns exactly length characters, at least one of each
\* selected class and none outside the selected alphabets.
C4_Coverage ==
    (gen_op = "generate" /\ NumSelected(gen_args) >= 1
        /\ gen_args.length >= NumSelected(gen_args))
    => /\ Len(gen_ret) = gen_args.length
       /\ gen_args.use_lower
            => Range(gen_ret) \cap Range(lower(gen_args.exclude_ambiguous)) # {}
       /\ gen_args.use_upper
            => Range(gen_ret) \cap Range(upper(gen_args.exclude_ambiguous)) # {}
       /\ gen_args.use_digits
            => Range(gen_ret) \cap Range(digits(gen_args.exclude_ambiguous)) # {}
       /\ gen_args.use_symbols
            => Range(gen_ret) \cap Range(symbols(gen_args.exclude_ambiguous)) # {}
       /\ Range(gen_ret) \subseteq
            (IF gen_args.use_lower
                THEN Range(lower(gen_args.exclude_ambiguous)) ELSE {})
            \cup (IF gen_args.use_upper
                THEN Range(upper(gen_args.exclude_ambiguous)) ELSE {})
            \cup (IF gen_args.use_digits
                THEN Range(digits(gen_args.exclude_ambiguous)) ELSE {})
            \cup (IF gen_args.use_symbols
                THEN Range(symbols(gen_args.exclude_ambiguous)) ELSE {})

\* a password longer than its number of classes, of two classes or more
C4_Witness ==
    /\ gen_op = "generate"
    /\ NumSelected(gen_args) >= 2
    /\ gen_args.length > NumSelected(gen_args)
    /\ gen_args.exclude_ambiguous
    /\ Len(gen_ret) = gen_args.length

\* C5: generate with length < the number of selected classes, or with no
\* class selected, fails and returns no password; it never returns a password
\* longer than the requested length.
C5_InvalidConfig ==
    gen_op = "generate"
    => /\ Len(gen_ret) <= gen_args.length
       /\ (gen_args.length < NumSelected(gen_args) \/ NumSelected(gen_args) = 0)
            => gen_ret = <<>> /\ history = <<>>

-----------------------------------------------------------------------------
(* check_if_pwned                                                          *)

\* check_if_pwned has been called
Called == cip_ret # NoResult

\* the status of the response is 2xx
Is2xx(resp) == resp.exc = "none" /\ resp.status \in 200..299

\* the 35-character suffix of the digest of the password of the call
LocalSuffix == SubSeq(sha1_upper(cip_password), 6, 40)

\* the records of the body received
BodyLines == splitlines(cip_resp.text)

\* a decimal number: digits and nothing else
IsDecimal(s) == s # <<>> /\ \A i \in 1..Len(s) : s[i] \in Digits

\* a record of the form SUFFIX:COUNT
WellFormed(line) ==
    LET f == Split(line, ":") IN Len(f) = 2 /\ IsDecimal(f[2])

\* the records with the suffix of the call
Matches == {i \in 1..Len(BodyLines) : Split(BodyLines[i], ":")[1] = LocalSuffix}

CountOf(i) == Magnitude(Split(BodyLines[i], ":")[2], 0)

\* the call received a 2xx response all of whose records are well-formed
WellFormedCall ==
    /\ Called
    /\ cip_password # <<>>
    /\ Is2xx(cip_resp)
    /\ \A i \in 1..Len(BodyLines) : WellFormed(BodyLines[i])

\* C7: for a 2xx response of well-formed records, check_if_pwned returns the
\* count of the record with the local suffix, and returns 0 exactly when no
\* record has that suffix.
C7_CountExactlyWhen ==
    WellFormedCall
    => /\ cip_ret.error = None
       /\ Matches # {} => \E i \in Matches : cip_ret = Counted(CountOf(i))
       /\ cip_ret = Counted(0) <=> Matches = {}

\* C7, amended: for a 2xx response of well-formed records, check_if_pwned
\* returns the count of the first record with the local suffix, which is 0
\* if that count is 0, and returns 0 if no record has the suffix.
C7_FirstMatch ==
    WellFormedCall
    => IF Matches = {}
       THEN cip_ret = Counted(0)
       ELSE cip_ret = Counted(CountOf(Nth(Matches, 1)))

\* a matching record with a positive count behind a record of another suffix
C7_Witness ==
    /\ WellFormedCall
    /\ Matches # {}
    /\ Nth(Matches, 1) > 1
    /\ cip_ret.count # None
    /\ cip_ret.count[1] > 0

\* C8: if any record of a successful response is malformed (no colon, or a
\* count that is no decimal number), check_if_pwned returns a failure and no
\* count, wherever the malformed record stands.
C8_ParseFailure ==
    (/\ Called
     /\ cip_password # <<>>
     /\ Is2xx(cip_resp)
     /\ \E i \in 1..Len(BodyLines) : ~WellFormed(BodyLines[i]))
    => cip_ret.error # None /\ cip_ret.count = None

\* the tags of the failures check_if_pwned returns for the responses that
\* are no transport failure and whose status is not 2xx
HttpStatusTags ==
    {check_if_pwned(pw_du, r).error[1].tag :
        r \in {q \in Responses : q.exc = "none" /\ ~Is2xx(q)
                                   /\ check_if_pwned(pw_du, q).error # None}}

\* C9: a transport failure gives a failure, a status that is not 2xx gives a
\* failure, in neither case a count is returned, and the tag of a transport
\* failure is not the tag of a status failure.
C9_FailureKinds ==
    (Called /\ cip_password # <<>>)
    => /\ cip_resp.exc \in TransportExceptions
            => /\ cip_ret.error # None /\ cip_ret.count = None
               /\ cip_ret.error[1].tag \notin HttpStatusTags
       /\ (cip_resp.exc = "none" /\ ~Is2xx(cip_resp))
            => cip_ret.error # None /\ cip_ret.count = None

\* C10: check_if_pwned with an empty password returns a failure of its own
\* kind without hashing anything and without sending a request; the failures
\* of the calls with a password do not carry its tag.
C10_EmptyInput ==
    Called
    => IF cip_password = <<>>
       THEN /\ cip_ret.count = None
            /\ cip_ret.error # None
            /\ cip_ret.error[1].tag = "Password is empty."
            /\ hashed = {}
            /\ net = {}
       ELSE /\ hashed = {cip_password}
            /\ Cardinality(net) = 1
            /\ cip_ret.error # None => cip_ret.error[1].tag # "Password is empty."

\* check_if_pwned was called with the empty password
C10_Witness ==
    /\ Called
    /\ cip_password = <<>>
    /\ cip_ret.error # None

-----------------------------------------------------------------------------
(* check_if_pwned: retries and the shape of the returned tuple             *)

\* C11: no retries. One call of check_if_pwned calls requests.get at most
\* once and sends at most one request, whether the request succeeds, fails
\* in transport, returns a status that is not 2xx or returns a body that
\* does not parse; a call with an empty password sends none.
C11_NoRetry ==
    [][/\ get_calls' <= get_calls + 1
       /\ Cardinality(net') <= Cardinality(net) + 1
       /\ cip_password' = <<>> => get_calls' = get_calls]_vars

\* a call whose request failed in transport has called requests.get once
C11_Witness ==
    /\ cip_resp.exc = "Timeout"
    /\ cip_ret.error # None
    /\ get_calls = 1

\* C13: every tuple check_if_pwned returns is either a count n >= 0 with no
\* error, or an error with a message and no count, never both and never
\* neither, whatever the password and the response (a signed COUNT field
\* included); the tuple holds neither the password nor its 40-character
\* digest.
C13_ResultShape ==
    Called
    => /\ \/ /\ cip_ret.count # None
             /\ cip_ret.error = None
             /\ cip_ret.count[1] >= 0
          \/ /\ cip_ret.count = None
             /\ cip_ret.error # None
             /\ cip_ret.error[1].tag # ""
       /\ cip_ret.error # None
            => /\ ~Occurs(sha1_upper(cip_password), cip_ret.error[1].text)
               /\ cip_password # <<>> => ~Occurs(cip_password, cip_ret.error[1].text)

-----------------------------------------------------------------------------
(* The history: capacity and order                                         *)

\* C12: the history is a buffer of fixed capacity with first-in first-out
\* eviction. It never holds more than max_history entries, and an entry added
\* to a full history goes in front while the last entry, the oldest, is the
\* one dropped: the others keep their order.
C12_BoundedFifo ==
    /\ [](Len(history) <= max_history)
    /\ [][added' = added + 1 =>
            /\ Len(history') = Min(Len(history) + 1, max_history)
            /\ Tail(history') = SubSeq(history, 1, Min(Len(history), max_history - 1))]_vars

\* two entries were added to a history that held max_history - 1 or more: the
\* second of them evicted an entry
C12_Witness ==
    /\ Len(history) = max_history
    /\ added = 2
    /\ history[3].time = "09:59:59"

-----------------------------------------------------------------------------
(* The analyzer's functions                                                *)

\* the thresholds of the strength levels, in bits
Thresholds == {28, 36, 50, 65, 80, 100, 120}

StrengthLabels ==
    <<"Critical", "Very Weak", "Weak", "Fair", "Good", "Strong", "Very Strong", "Exceptional">>

\* C14: get_strength_feedback is total and non-decreasing in the entropy,
\* onto the levels 0..7 with the thresholds 28, 36, 50, 65, 80, 100, 120: the
\* level is the number of thresholds the entropy has reached, so an entropy
\* below a threshold is in the lower band and one equal to it in the higher
\* band, and the label is the one of the level.
C14_StrengthLevel ==
    an_op = "get_strength_feedback"
    => /\ an_ret.level \in 0..7
       /\ an_ret.level = Cardinality({t \in Thresholds : t * Bit <= an_arg})
       /\ an_ret.label = StrengthLabels[an_ret.level + 1]
       /\ \A e \in Entropies :
            e <= an_arg => get_strength_feedback(e).level <= an_ret.level
       /\ \A l \in 0..7 : \E e \in Entropies : get_strength_feedback(e).level = l

\* an entropy of 28.00 bits is of level 1
C14_Witness ==
    /\ an_op = "get_strength_feedback"
    /\ an_arg = 28 * Bit
    /\ an_ret.level = 1
    /\ an_ret.label = "Very Weak"

\* C15: the analysis of "Passw0rd!": the four class tests all match, the
\* pool size is 26 + 26 + 10 + 32 = 94, the entropy for its 9 characters is
\* 59.16 bits and the strength level of that entropy is 2, "Weak".
C15_Passw0rd ==
    (an_op = "calculate_entropy" /\ an_arg = Passw0rd)
    => /\ has_lower(an_arg) /\ has_upper(an_arg) /\ has_digit(an_arg) /\ has_other(an_arg)
       /\ pool_size(an_arg) = 94
       /\ Len(an_arg) = 9
       /\ an_ret = 5916
       /\ get_strength_feedback(an_ret).level = 2
       /\ get_strength_feedback(an_ret).label = "Weak"

\* C15, amended: the four class tests all match, the pool size is 94, the
\* entropy for the 9 characters is 9 * log2(94) = 58.99 bits and the
\* strength level of that entropy is 3, "Fair".
C15_Passw0rdFair ==
    (an_op = "calculate_entropy" /\ an_arg = Passw0rd)
    => /\ has_lower(an_arg) /\ has_upper(an_arg) /\ has_digit(an_arg) /\ has_other(an_arg)
       /\ pool_size(an_arg) = 94
       /\ Len(an_arg) = 9
       /\ an_ret = 5899
       /\ get_strength_feedback(an_ret).level = 3
       /\ get_strength_feedback(an_ret).label = "Fair"

\* calculate_entropy has been called with "Passw0rd!"
C15_Witness ==
    /\ an_op = "calculate_entropy"
    /\ an_arg = Passw0rd
    /\ an_ret > 0

\* the duration of one of a unit, and the duration of one of the next
\* coarser unit
UnitOf(unit) ==
    CASE unit = "seconds" -> "second" [] unit = "minutes" -> "minute"
      [] unit = "hours" -> "hour" [] unit = "days" -> "day"
      [] unit = "years" -> "year" [] unit = "thousand years" -> "thousand years"

NextCoarser(unit) ==
    CASE unit = "seconds" -> "minute" [] unit = "minutes" -> "hour"
      [] unit = "hours" -> "day" [] unit = "days" -> "year"
      [] unit = "years" -> "thousand years" [] unit = "thousand years" -> "million years"

\* C16: get_crack_time shows seconds = 2^entropy / 10^11 in the coarsest of
\* the units seconds, minutes, hours, days, years, thousand years in which
\* the number is at least 1: for a duration of one second or more the number
\* shown is at least 1 in the unit chosen and would be below 1 in the next
\* coarser one, and "millions of years+" is returned only for a duration of
\* a million years or more.
C16_CoarsestUnit ==
    (an_op = "get_crack_time" /\ ~seconds_lt(an_arg, "second"))
    => IF an_ret.unit = "millions of years+"
       THEN ~seconds_lt(an_arg, "million years")
       ELSE /\ an_ret.at_least_one
            /\ ~seconds_lt(an_arg, UnitOf(an_ret.unit))
            /\ seconds_lt(an_arg, NextCoarser(an_ret.unit))

\* the rules of the suggestions in their order, each with whether it fires
\* on the password
RulesOn(password) ==
    << <<Len(password) < 12, IncreaseLength>>,
       <<\A i \in 1..Len(password) : password[i] \notin Range(ascii_lowercase), AddLowercase>>,
       <<\A i \in 1..Len(password) : password[i] \notin Range(ascii_uppercase), AddUppercase>>,
       <<\A i \in 1..Len(password) : password[i] \notin Range(string_digits), AddNumbers>>,
       <<\A i \in 1..Len(password) : IsLetter(password[i]) \/ IsDigit(password[i]), AddSpecial>>,
       <<detect_patterns(password) # <<>>, AvoidPatterns>>,
       <<10 * Cardinality(Range(password)) < 6 * Len(password), MoreUnique>> >>

\* the positions of the rules that fire
FiredOn(password) == {k \in 1..7 : RulesOn(password)[k][1]}

\* C17: get_suggestions evaluates its rules in a fixed order and returns a
\* non-empty list: the messages of the rules that fire, in the order length
\* below 12, no lowercase, no uppercase, no digit, no symbol, a pattern
\* detected, unique-character ratio below 0.6; the affirmative message is
\* returned if and only if no rule fires, and then alone.
C17_SuggestionOrder ==
    an_op = "get_suggestions"
    => LET fired == FiredOn(an_arg)
       IN  /\ an_ret # <<>>
           /\ fired # {}
                => /\ Len(an_ret) = Cardinality(fired)
                   /\ \A k \in 1..Len(an_ret) : an_ret[k] = RulesOn(an_arg)[Nth(fired, k)][2]
           /\ fired = {} <=> an_ret = <<Excellent>>
           /\ (\E k \in 1..Len(an_ret) : an_ret[k] = Excellent) => Len(an_ret) = 1

\* a password on which the rule of patterns and the rule of unique characters
\* both fire, behind other rules
C17_Witness ==
    /\ an_op = "get_suggestions"
    /\ Len(an_ret) >= 4
    /\ an_ret[Len(an_ret)] = MoreUnique
    /\ an_ret[Len(an_ret) - 1] = AvoidPatterns

\* the characters the replace calls of generate name
Ambiguous == {"l", "o", "I", "O", "0", "1", "|"}

\* C18: with exclude_ambiguous set, none of l, o, I, O, 0, 1 and | is in any
\* class alphabet a character is drawn from, nor in the pool the remaining
\* characters are drawn from, so the password generate returns holds none of
\* them, whatever the classes and the length.
C18_NoAmbiguous ==
    (gen_op = "generate" /\ gen_args.exclude_ambiguous)
    => /\ \A i \in 1..Len(gen_ret) : gen_ret[i] \notin Ambiguous
       /\ \A k \in 1..Len(Selected(gen_args)) :
              Range(Selected(gen_args)[k]) \cap Ambiguous = {}
       /\ Range(char_pool(gen_args)) \cap Ambiguous = {}

\* a password of all four classes with the exclusion on, whose digit is the
\* first digit left
C18_Witness ==
    /\ gen_op = "generate"
    /\ gen_args.exclude_ambiguous
    /\ gen_args.use_lower /\ gen_args.use_upper
    /\ gen_args.use_digits /\ gen_args.use_symbols
    /\ gen_args.length = MaxLength
    /\ Len(gen_ret) = 4
    /\ "2" \in Range(gen_ret)

====
